---- MODULE Spec2Model ----
(***************************************************************************)
(* Node genes, connection genes, connection_exists and align_connections   *)
(* of nevopy/neat/genes.py.                                                *)
(*                                                                         *)
(* Objects live in two heaps, nodes and conns; a reference is an index of  *)
(* its heap.  Python values are tagged tuples so that values of different  *)
(* Python types compare unequal instead of being incomparable:             *)
(* None is <<"None">>, the int v is <<"int", v>>, a string is              *)
(* <<"str", k>> and a 2-tuple of node references is <<"tuple", a, b>>.     *)
(* Where a position holds an object or None, the object at heap index ref  *)
(* is <<"object", ref>>.                                                   *)
(* Floats (activations, inputs, weights) are modelled by integers.         *)
(***************************************************************************)
EXTENDS Integers, Sequences, FiniteSets, TLC

VARIABLES
    nodes,      \* heap of NodeGene objects
    conns,      \* heap of ConnectionGene objects
    call,       \* the last call made: [op, self]
    raised,     \* the exception the last call raised, or "None"
    ret,        \* the object the last call returned (0: nothing)
    created,    \* history: the arguments each NodeGene was constructed with
    last_x,     \* history: per node, the input of the last activate() since
                \* construction or the last reset_activation(), or None
    con_list1,  \* first argument of align_connections
    con_list2,  \* second argument of align_connections
    aligned1,   \* first list returned by align_connections
    aligned2    \* second list returned by align_connections

vars == <<nodes, conns, call, raised, ret, created, last_x,
          con_list1, con_list2, aligned1, aligned2>>

alignVars == <<con_list1, con_list2, aligned1, aligned2>>

----------------------------------------------------------------------------
(* Bounds *)

\* The constructor of NodeGene is called while the heap holds fewer than
\* MaxNodes nodes, the constructor of ConnectionGene while it holds fewer
\* than MaxConns connections; constructors and shallow_copy fill the two
\* heaps up to MaxGenes objects.  The lists aligned by align_connections
\* have at most MaxLen genes.
MaxNodes == 2
MaxConns == 2
MaxGenes == 4
MaxLen == 3

NodeIds == {0, 1}
ConnIds == 1..4
Inputs == {-1, 1}
Activations == {0, 1}
ActivationFuncs == {"linear", "relu"}

----------------------------------------------------------------------------
(* Python values *)

None == <<"None">>
PyInt(v) == <<"int", v>>
PyStr(k) == <<"str", k>>
PyTuple(a, b) == <<"tuple", a, b>>
Obj(ref) == <<"object", ref>>

Types == {"INPUT", "BIAS", "HIDDEN", "OUTPUT"}

\* The string uuid.uuid4().hex[:12] drawn while constructing the node at
\* heap index ref.  Draws of uuid4 are taken to be pairwise different; the
\* string is named by the index of the object it was drawn for.
uuid4(ref) == PyStr(ref)

\* The activation functions handed to the constructor in this model.
Apply(f, x) ==
    CASE f = "linear" -> x
      [] f = "relu" -> IF x > 0 THEN x ELSE 0

NodeRefs == 1..Len(nodes)
ConnRefs == 1..Len(conns)

Range(s) == {s[i] : i \in DOMAIN s}

----------------------------------------------------------------------------
(* NodeGene *)

\* The arguments of a call of the constructor of NodeGene.
Args(node_id, node_type, activation_func, initial_activation, parents) ==
    [node_id |-> node_id,
     node_type |-> node_type,
     activation_func |-> activation_func,
     initial_activation |-> initial_activation,
     parent_connection_nodes |-> parents]

\* NodeGene.__init__ with the arguments a, for the object stored at heap
\* index ref.
NodeGeneInit(ref, a) ==
    [_id |-> a.node_id,
     _type |-> a.node_type,
     _initial_activation |-> a.initial_activation,
     _activation |-> a.initial_activation,
     _function |-> a.activation_func,
     _parent_connection_nodes |-> a.parent_connection_nodes,
     in_connections |-> <<>>,
     out_connections |-> <<>>,
     _temp_id |-> IF a.node_id # None THEN None ELSE uuid4(ref)]

\* The allocation of a new NodeGene, constructed with the arguments a, by the
\* call op on self (0: the new object itself).
AllocNode(op, self, a) ==
    LET ref == Len(nodes) + 1 IN
    /\ Len(nodes) + Len(conns) < MaxGenes
    /\ nodes' = Append(nodes, NodeGeneInit(ref, a))
    /\ created' = Append(created, a)
    /\ last_x' = Append(last_x, None)
    /\ call' = [op |-> op, self |-> IF self = 0 THEN ref ELSE self]
    /\ raised' = "None"
    /\ ret' = ref
    /\ UNCHANGED <<conns, alignVars>>

\* NodeGene(node_id, node_type, activation_func, initial_activation,
\*          parent_connection_nodes), with the arguments a
NodeGene(a) ==
    /\ Len(nodes) < MaxNodes
    /\ AllocNode("NodeGene", 0, a)

\* NodeGene.id (property read)
NodeId(n) ==
    IF nodes[n]._id # None THEN nodes[n]._id ELSE nodes[n]._temp_id

\* A setter without the guard of line 121: it overwrites a definitive id.
SetNodeId_overwrite(n, new_id) ==
    /\ n \in NodeRefs
    /\ call' = [op |-> "NodeGene.id", self |-> n]
    /\ ret' = 0
    /\ raised' = "None"
    /\ nodes' = [nodes EXCEPT ![n]._id = new_id, ![n]._temp_id = None]
    /\ UNCHANGED <<conns, created, last_x, alignVars>>

\* A setter without line 125: the temporary id survives the assignment.
SetNodeId_keepTemp(n, new_id) ==
    /\ n \in NodeRefs
    /\ call' = [op |-> "NodeGene.id", self |-> n]
    /\ ret' = 0
    /\ IF nodes[n]._id # None
       THEN /\ raised' = "NodeIdException"
            /\ UNCHANGED nodes
       ELSE /\ raised' = "None"
            /\ nodes' = [nodes EXCEPT ![n]._id = new_id]
    /\ UNCHANGED <<conns, created, last_x, alignVars>>

\* NodeGene.id (setter): nodes[n].id = new_id
SetNodeId(n, new_id) ==
    /\ n \in NodeRefs
    /\ call' = [op |-> "NodeGene.id", self |-> n]
    /\ ret' = 0
    /\ IF nodes[n]._id # None
       THEN /\ raised' = "NodeIdException"
            /\ UNCHANGED nodes
       ELSE /\ raised' = "None"
            /\ nodes' = [nodes EXCEPT ![n]._id = new_id,
                                      ![n]._temp_id = None]
    /\ UNCHANGED <<conns, created, last_x, alignVars>>

\* NodeGene.is_id_temp
is_id_temp(n) == nodes[n]._id = None

\* NodeGene.type
NodeType(n) == nodes[n]._type

\* NodeGene.activation
activation(n) == nodes[n]._activation

\* The outcome of a read: a returned value or a raised exception.
Return(v) == [raised |-> "None", value |-> v]
Raise(e) == [raised |-> e, value |-> None]

\* A read without the check of the type at line 179.
parent_connection_nodes_unchecked(n) ==
    Return(nodes[n]._parent_connection_nodes)

\* NodeGene.parent_connection_nodes (property read)
parent_connection_nodes(n) ==
    IF nodes[n]._type # "HIDDEN"
    THEN Raise("NodeParentsException")
    ELSE Return(nodes[n]._parent_connection_nodes)

\* NodeGene.activate
activate(n, x) ==
    /\ n \in NodeRefs
    /\ nodes' = [nodes EXCEPT ![n]._activation = Apply(nodes[n]._function, x)]
    /\ last_x' = [last_x EXCEPT ![n] = PyInt(x)]
    /\ call' = [op |-> "activate", self |-> n]
    /\ raised' = "None"
    /\ ret' = 0
    /\ UNCHANGED <<conns, created, alignVars>>

\* A copy that takes the cached activation for the initial activation.
CopyArgs_cached(n) ==
    Args(nodes[n]._id, nodes[n]._type, nodes[n]._function,
         nodes[n]._activation, nodes[n]._parent_connection_nodes)

\* A copy that passes the id read from the property, which is the temporary
\* id of a node without a definitive id, instead of _id.
CopyArgs_id(n) ==
    Args(NodeId(n), nodes[n]._type, nodes[n]._function,
         nodes[n]._initial_activation, nodes[n]._parent_connection_nodes)

\* The arguments shallow_copy passes to the constructor.
CopyArgs(n) ==
    Args(nodes[n]._id, nodes[n]._type, nodes[n]._function,
         nodes[n]._initial_activation, nodes[n]._parent_connection_nodes)

\* NodeGene.shallow_copy
shallow_copy(n) ==
    /\ n \in NodeRefs
    /\ AllocNode("shallow_copy", n, CopyArgs(n))

\* A reset to zero instead of the initial activation.
reset_activation_zero(n) ==
    /\ n \in NodeRefs
    /\ nodes' = [nodes EXCEPT ![n]._activation = 0]
    /\ last_x' = [last_x EXCEPT ![n] = None]
    /\ call' = [op |-> "reset_activation", self |-> n]
    /\ raised' = "None"
    /\ ret' = 0
    /\ UNCHANGED <<conns, created, alignVars>>

\* NodeGene.reset_activation
reset_activation(n) ==
    /\ n \in NodeRefs
    /\ nodes' = [nodes EXCEPT ![n]._activation = nodes[n]._initial_activation]
    /\ last_x' = [last_x EXCEPT ![n] = None]
    /\ call' = [op |-> "reset_activation", self |-> n]
    /\ raised' = "None"
    /\ ret' = 0
    /\ UNCHANGED <<conns, created, alignVars>>

----------------------------------------------------------------------------
(* ConnectionGene *)

\* ConnectionGene.__init__
ConnectionGeneInit(cid, from_node, to_node, weight, enabled) ==
    [_id |-> cid,
     _from_node |-> from_node,
     _to_node |-> to_node,
     weight |-> weight,
     enabled |-> enabled]

\* ConnectionGene(cid, from_node, to_node, weight, enabled)
ConnectionGene(cid, from_node, to_node, weight, enabled) ==
    /\ Len(conns) < MaxConns
    /\ Len(nodes) + Len(conns) < MaxGenes
    /\ from_node \in NodeRefs
    /\ to_node \in NodeRefs
    /\ conns' = Append(conns,
                       ConnectionGeneInit(cid, from_node, to_node, weight,
                                          enabled))
    /\ call' = [op |-> "ConnectionGene", self |-> Len(conns) + 1]
    /\ raised' = "None"
    /\ ret' = Len(conns) + 1
    /\ UNCHANGED <<nodes, created, last_x, alignVars>>

\* ConnectionGene.id (property read)
ConnId(c) == conns[c]._id

\* ConnectionGene.id (setter): conns[c].id = new_id
SetConnId(c, new_id) ==
    /\ c \in ConnRefs
    /\ call' = [op |-> "ConnectionGene.id", self |-> c]
    /\ ret' = 0
    /\ IF conns[c]._id # None
       THEN /\ raised' = "ConnectionIdException"
            /\ UNCHANGED conns
       ELSE /\ raised' = "None"
            /\ conns' = [conns EXCEPT ![c]._id = new_id]
    /\ UNCHANGED <<nodes, created, last_x, alignVars>>

\* ConnectionGene.from_node
from_node(c) == conns[c]._from_node

\* ConnectionGene.to_node
to_node(c) == conns[c]._to_node

\* Wiring done by the owner of the genes: the connection c is appended to
\* the out_connections of its source node.
AppendOut(c) ==
    /\ c \in ConnRefs
    /\ c \notin Range(nodes[from_node(c)].out_connections)
    /\ nodes' = [nodes EXCEPT ![from_node(c)].out_connections =
                                  Append(@, c)]
    /\ call' = [op |-> "out_connections.append", self |-> c]
    /\ raised' = "None"
    /\ ret' = 0
    /\ UNCHANGED <<conns, created, last_x, alignVars>>

\* Wiring done by the owner of the genes: the connection c is appended to
\* the in_connections of its destination node.
AppendIn(c) ==
    /\ c \in ConnRefs
    /\ c \notin Range(nodes[to_node(c)].in_connections)
    /\ nodes' = [nodes EXCEPT ![to_node(c)].in_connections = Append(@, c)]
    /\ call' = [op |-> "in_connections.append", self |-> c]
    /\ raised' = "None"
    /\ ret' = 0
    /\ UNCHANGED <<conns, created, last_x, alignVars>>

Min(a, b) == IF a <= b THEN a ELSE b

\* A scan that compares only the incoming connections of dest_node.
connection_exists_in_only(src_node, dest_node) ==
    LET ins == nodes[dest_node].in_connections
        outs == nodes[src_node].out_connections
    IN \E i \in 1..Min(Len(ins), Len(outs)) :
           NodeId(from_node(ins[i])) = NodeId(src_node)

\* connection_exists(src_node, dest_node): the loop over
\* zip(dest_node.in_connections, src_node.out_connections) returns True at
\* the first position whose pair matches and False when the shorter list
\* is exhausted.
connection_exists(src_node, dest_node) ==
    LET ins == nodes[dest_node].in_connections
        outs == nodes[src_node].out_connections
    IN \E i \in 1..Min(Len(ins), Len(outs)) :
           \/ NodeId(from_node(ins[i])) = NodeId(src_node)
           \/ NodeId(to_node(outs[i])) = NodeId(dest_node)

----------------------------------------------------------------------------
(* align_connections *)

\* The ids of the genes of con_list, as integers.
ListIds(con_list) == [i \in DOMAIN con_list |-> ConnId(con_list[i])[2]]

\* {c.id: c for c in con_list}: a later gene replaces an earlier gene of
\* the same id.
ConDict(con_list) ==
    LET Key(i) == ConnId(con_list[i])[2]
        Last(k) == CHOOSE i \in DOMAIN con_list :
                       /\ Key(i) = k
                       /\ \A j \in (i + 1)..Len(con_list) : Key(j) # k
    IN [k \in {Key(i) : i \in DOMAIN con_list} |-> con_list[Last(k)]]

RECURSIVE SetToSeq(_)
\* The elements of the set S, each once, in the order an iteration over S
\* yields them.
SetToSeq(S) ==
    IF S = {} THEN <<>>
    ELSE LET k == CHOOSE k \in S : TRUE IN <<k>> \o SetToSeq(S \ {k})

\* A sort in descending order.
sorted_reverse(S) == SortSeq(SetToSeq(S), LAMBDA j, k : j > k)

\* sorted(S), for a set S of integers
sorted(S) == SortSeq(SetToSeq(S), LAMBDA j, k : j < k)

\* An alignment whose second list takes the gene of the first dict wherever
\* both dicts hold the id.
align_connections_first(list1, list2) ==
    LET con_dict1 == ConDict(list1)
        con_dict2 == ConDict(list2)
        union == sorted(DOMAIN con_dict1 \cup DOMAIN con_dict2)
    IN <<[i \in DOMAIN union |->
              IF union[i] \in DOMAIN con_dict1
              THEN Obj(con_dict1[union[i]]) ELSE None],
         [i \in DOMAIN union |->
              IF union[i] \in DOMAIN con_dict1
              THEN Obj(con_dict1[union[i]])
              ELSE Obj(con_dict2[union[i]])]>>

\* An alignment with one position per gene of the two lists.
align_connections_concat(list1, list2) ==
    <<[i \in 1..(Len(list1) + Len(list2)) |->
           IF i <= Len(list1) THEN Obj(list1[i]) ELSE None],
      [i \in 1..(Len(list1) + Len(list2)) |->
           IF i <= Len(list1) THEN None ELSE Obj(list2[i - Len(list1)])]>>

\* align_connections(con_list1, con_list2): the pair <<aligned1, aligned2>>
align_connections(list1, list2) ==
    LET con_dict1 == ConDict(list1)
        con_dict2 == ConDict(list2)
        union == sorted(DOMAIN con_dict1 \cup DOMAIN con_dict2)
    IN <<[i \in DOMAIN union |->
              IF union[i] \in DOMAIN con_dict1
              THEN Obj(con_dict1[union[i]]) ELSE None],
         [i \in DOMAIN union |->
              IF union[i] \in DOMAIN con_dict2
              THEN Obj(con_dict2[union[i]]) ELSE None]>>

\* The call align_connections(con_list1, con_list2)
AlignConnections ==
    /\ LET aligned == align_connections(con_list1, con_list2)
       IN aligned1' = aligned[1] /\ aligned2' = aligned[2]
    /\ call' = [op |-> "align_connections", self |-> 0]
    /\ raised' = "None"
    /\ ret' = 0
    /\ UNCHANGED <<nodes, conns, created, last_x, con_list1, con_list2>>

----------------------------------------------------------------------------
(* Specification of the identity protocol *)

NoCall == [op |-> "None", self |-> 0]

Init ==
    /\ nodes = <<>>
    /\ conns = <<>>
    /\ call = NoCall
    /\ raised = "None"
    /\ ret = 0
    /\ created = <<>>
    /\ last_x = <<>>
    /\ con_list1 = <<>>
    /\ con_list2 = <<>>
    /\ aligned1 = <<>>
    /\ aligned2 = <<>>

\* The id arguments of the constructors and of the two id setters.
CtorIds == {None, PyInt(0)}
NewIds == {PyInt(v) : v \in NodeIds}

Next ==
    \/ \E node_id \in CtorIds :
           NodeGene(Args(node_id, "HIDDEN", "linear", 0, None))
    \/ \E n \in NodeRefs, new_id \in NewIds : SetNodeId(n, new_id)
    \/ \E n \in NodeRefs : shallow_copy(n)
    \/ \E cid \in CtorIds, f \in NodeRefs, t \in NodeRefs :
           ConnectionGene(cid, f, t, 1, TRUE)
    \/ \E c \in ConnRefs, new_id \in NewIds : SetConnId(c, new_id)

Spec == Init /\ [][Next]_vars

----------------------------------------------------------------------------
(* Claims on the identity protocol, checked under Spec *)

\* C1: once a NodeGene or a ConnectionGene has a definitive id (from its
\* constructor or from a first assignment), every later assignment raises
\* NodeIdException, respectively ConnectionIdException, and no step
\* changes the id that is read.
C1_IdAssignedOnce ==
    [][/\ \A n \in NodeRefs :
              nodes[n]._id # None =>
                  /\ nodes'[n]._id = nodes[n]._id
                  /\ (call'.op = "NodeGene.id" /\ call'.self = n
                          => raised' = "NodeIdException")
       /\ \A c \in ConnRefs :
              conns[c]._id # None =>
                  /\ conns'[c]._id = conns[c]._id
                  /\ (call'.op = "ConnectionGene.id" /\ call'.self = c
                          => raised' = "ConnectionIdException")]_vars

\* A node constructed without an id got one from a first assignment, and a
\* second assignment to it has just raised, while some connection also
\* holds a definitive id.
C1_Witness ==
    /\ call.op = "NodeGene.id"
    /\ raised = "NodeIdException"
    /\ created[call.self].node_id = None
    /\ nodes[call.self]._id \in NewIds
    /\ \E c \in ConnRefs : conns[c]._id # None

\* C7: a NodeGene has exactly one of its definitive id and its temporary id
\* set; is_id_temp() tells that the definitive id is missing, in which case
\* the id read is the temporary string, and otherwise it is the int.
C7_ExactlyOneId ==
    \A n \in NodeRefs :
        /\ (nodes[n]._id = None) # (nodes[n]._temp_id = None)
        /\ is_id_temp(n) <=> nodes[n]._temp_id # None
        /\ is_id_temp(n) => NodeId(n) = nodes[n]._temp_id /\ NodeId(n)[1] = "str"
        /\ ~is_id_temp(n) => NodeId(n) = nodes[n]._id /\ NodeId(n)[1] = "int"

\* One node still has its temporary id while another, constructed without
\* an id, has just been assigned its definitive id.
C7_Witness ==
    /\ call.op = "NodeGene.id"
    /\ raised = "None"
    /\ created[call.self].node_id = None
    /\ ~is_id_temp(call.self)
    /\ \E n \in NodeRefs : is_id_temp(n)

----------------------------------------------------------------------------
(* Specification of the identity of the copies of a node *)

\* One node has been constructed, with or without an id; every other node
\* is made by shallow_copy, so that node 2 is a copy of node 1 and every
\* node descends from node 1.
InitIdentity ==
    \E node_id \in CtorIds :
        LET a == Args(node_id, "HIDDEN", "linear", 0, None) IN
        /\ nodes = <<NodeGeneInit(1, a)>>
        /\ created = <<a>>
        /\ last_x = <<None>>
        /\ conns = <<>>
        /\ call = NoCall
        /\ raised = "None"
        /\ ret = 0
        /\ con_list1 = <<>>
        /\ con_list2 = <<>>
        /\ aligned1 = <<>>
        /\ aligned2 = <<>>

NextIdentity ==
    \/ \E n \in NodeRefs : shallow_copy(n)
    \/ \E n \in NodeRefs, new_id \in NewIds : SetNodeId(n, new_id)

SpecIdentity == InitIdentity /\ [][NextIdentity]_vars

----------------------------------------------------------------------------
(* Claim on the identity of a copy, checked under SpecIdentity *)

----------------------------------------------------------------------------
(* Specification of the wiring of nodes by connections *)

NextWire ==
    \/ \E node_id \in CtorIds :
           NodeGene(Args(node_id, "HIDDEN", "linear", 0, None))
    \/ \E f \in NodeRefs, t \in NodeRefs :
           ConnectionGene(None, f, t, 1, TRUE)
    \/ \E c \in ConnRefs : AppendOut(c)
    \/ \E c \in ConnRefs : AppendIn(c)

SpecWire == Init /\ [][NextWire]_vars


----------------------------------------------------------------------------
(* Specification of the attributes of a node *)

\* The parent_connection_nodes arguments: None or two existing nodes.
ParentArgs == {None} \cup {PyTuple(p, q) : p \in NodeRefs, q \in NodeRefs}

\* The owner of the genes creates no second connection between two nodes.
NoConnection(f, t) ==
    \A c \in ConnRefs : ~(from_node(c) = f /\ to_node(c) = t)

NextNode ==
    \/ \E t \in Types, parents \in ParentArgs :
           NodeGene(Args(None, t, "linear", 0, parents))
    \/ \E n \in NodeRefs : SetNodeId(n, PyInt(0))
    \/ \E n \in NodeRefs : activate(n, 1)
    \/ \E n \in NodeRefs : reset_activation(n)
    \/ \E n \in NodeRefs :
           NoConnection(n, n) /\ ConnectionGene(None, n, n, 1, TRUE)
    \/ \E c \in ConnRefs : AppendOut(c)
    \/ \E c \in ConnRefs : AppendIn(c)

SpecNode == Init /\ [][NextNode]_vars

----------------------------------------------------------------------------
(* Claims on the attributes of a node, checked under SpecNode *)

\* C6: reading parent_connection_nodes raises NodeParentsException on every
\* node constructed as INPUT, BIAS or OUTPUT, whatever parents it was
\* constructed with, and returns the parents given to the constructor on
\* every node constructed as HIDDEN, whatever has been done to the node.
C6_ParentsByType ==
    \A n \in NodeRefs :
        IF created[n].node_type = "HIDDEN"
        THEN parent_connection_nodes(n) =
                 Return(created[n].parent_connection_nodes)
        ELSE parent_connection_nodes(n) = Raise("NodeParentsException")

\* A HIDDEN node constructed with two parents has since been given its id,
\* been activated and been wired, and its parent is not HIDDEN.
C6_Witness ==
    \E n \in NodeRefs :
        /\ created[n].node_type = "HIDDEN"
        /\ created[n].parent_connection_nodes # None
        /\ nodes[n]._id # None
        /\ last_x[n] # None
        /\ nodes[n].in_connections # <<>>
        /\ nodes[n].out_connections # <<>>
        /\ parent_connection_nodes(n).value = created[n].parent_connection_nodes
        /\ parent_connection_nodes(created[n].parent_connection_nodes[2]).raised
               = "NodeParentsException"

----------------------------------------------------------------------------
(* Specification of the copy of a node *)

\* The type, activation function and initial activation of the nodes
\* constructed.
Profiles == {<<"INPUT", "linear", 0>>, <<"HIDDEN", "relu", 1>>}

NextCopy ==
    \/ \E p \in Profiles, parents \in ParentArgs :
           NodeGene(Args(None, p[1], p[2], p[3], parents))
    \/ \E n \in NodeRefs : activate(n, -1)
    \/ \E n \in NodeRefs : shallow_copy(n)
    \/ \E n \in NodeRefs :
           NoConnection(n, n) /\ ConnectionGene(None, n, n, 1, TRUE)
    \/ \E c \in ConnRefs : AppendOut(c)
    \/ \E c \in ConnRefs : AppendIn(c)

SpecCopy == Init /\ [][NextCopy]_vars

----------------------------------------------------------------------------
(* Claim on shallow_copy, checked under SpecCopy *)

\* C8: a step of shallow_copy adds one node, which it returns, with empty
\* in_connections and out_connections and with the type, the activation
\* function, the initial activation and the parents of the source, and it
\* changes no existing node.
C8_ShallowCopy ==
    [][call'.op = "shallow_copy" /\ nodes' # nodes =>
           LET src == call'.self
               copy == ret'
           IN /\ copy = Len(nodes) + 1
              /\ Len(nodes') = copy
              /\ nodes'[copy].in_connections = <<>>
              /\ nodes'[copy].out_connections = <<>>
              /\ nodes'[copy]._type = nodes[src]._type
              /\ nodes'[copy]._function = nodes[src]._function
              /\ nodes'[copy]._initial_activation =
                     nodes[src]._initial_activation
              /\ nodes'[copy]._parent_connection_nodes =
                     nodes[src]._parent_connection_nodes
              /\ \A n \in NodeRefs : nodes'[n] = nodes[n]]_vars

\* shallow_copy has just returned the copy of a node constructed with two
\* parents, which has a connection in each of its lists and a cached
\* activation other than its initial one.
C8_Witness ==
    /\ call.op = "shallow_copy"
    /\ nodes[call.self]._parent_connection_nodes # None
    /\ nodes[ret]._parent_connection_nodes
           = nodes[call.self]._parent_connection_nodes
    /\ ret = Len(nodes)
    /\ ret # call.self
    /\ nodes[call.self].in_connections # <<>>
    /\ nodes[call.self].out_connections # <<>>
    /\ nodes[call.self]._activation # nodes[call.self]._initial_activation
    /\ nodes[ret].in_connections = <<>>
    /\ nodes[ret].out_connections = <<>>

----------------------------------------------------------------------------
(* Specification of the activation of a node *)

NextActivation ==
    \/ \E f \in ActivationFuncs, i \in Activations :
           NodeGene(Args(None, "HIDDEN", f, i, None))
    \/ \E n \in NodeRefs, x \in Inputs : activate(n, x)
    \/ \E n \in NodeRefs : reset_activation(n)
    \/ \E n \in NodeRefs : shallow_copy(n)

SpecActivation == Init /\ [][NextActivation]_vars

\* C9: the cached activation of a node is the initial activation given to
\* its constructor when no activate() followed its construction or its last
\* reset_activation(), and otherwise the activation function applied to the
\* input of the last activate().
C9_ActivationCache ==
    \A n \in NodeRefs :
        /\ last_x[n] = None =>
               activation(n) = created[n].initial_activation
        /\ last_x[n] # None =>
               activation(n) = Apply(created[n].activation_func, last_x[n][2])
        /\ call.op = "reset_activation" /\ call.self = n =>
               activation(n) = created[n].initial_activation

\* reset_activation has just put back an initial activation of 1, while
\* another node caches relu(-1) = 0, which is not its initial activation.
C9_Witness ==
    /\ call.op = "reset_activation"
    /\ created[call.self].initial_activation = 1
    /\ activation(call.self) = 1
    /\ \E m \in NodeRefs :
           /\ m # call.self
           /\ last_x[m] = PyInt(-1)
           /\ created[m].activation_func = "relu"
           /\ created[m].initial_activation = 1
           /\ activation(m) = 0

----------------------------------------------------------------------------
(* Claims on connection_exists, checked under SpecWire *)

\* The connection c is in the out_connections of its source node.
InOut(c) == c \in Range(nodes[from_node(c)].out_connections)

\* The connection c is in the in_connections of its destination node.
InIn(c) == c \in Range(nodes[to_node(c)].in_connections)

\* The node n has no connection in either of its lists.
NoEdges(n) ==
    nodes[n].in_connections = <<>> /\ nodes[n].out_connections = <<>>

\* C5: connection_exists(n1, n2) is false for two nodes without edges, and
\* true as soon as a connection n1->n2 is in one of n1.out_connections and
\* n2.in_connections while the other list has not been updated yet.
C5_ExistsAfterOneAppend ==
    /\ \A n1 \in NodeRefs, n2 \in NodeRefs :
           NoEdges(n1) /\ NoEdges(n2) => ~connection_exists(n1, n2)
    /\ \A c \in ConnRefs :
           InOut(c) # InIn(c) => connection_exists(from_node(c), to_node(c))

\* Every connection is in both lists of its end points or in neither.
FullyWired == \A c \in ConnRefs : InOut(c) <=> InIn(c)

\* Some connection from s to d has been added to the lists.
Added(s, d) ==
    \E c \in ConnRefs : from_node(c) = s /\ to_node(c) = d /\ InOut(c)

\* No other node reads the same id as n.
UniqueId(n) == \A m \in NodeRefs : m # n => NodeId(m) # NodeId(n)

\* C10 as stated: when every added connection is in both lists,
\* connection_exists(s, d) is true iff a connection s->d has been added, for
\* every ordered pair of nodes.
C10_ExistsIffAdded ==
    FullyWired =>
        \A s \in NodeRefs, d \in NodeRefs :
            connection_exists(s, d) <=> Added(s, d)

\* C10 as amended: the same for every ordered pair of nodes neither of
\* which shares its id with another node.
C10_ExistsIffAddedUniqueIds ==
    FullyWired =>
        \A s \in NodeRefs, d \in NodeRefs :
            UniqueId(s) /\ UniqueId(d) =>
                (connection_exists(s, d) <=> Added(s, d))

\* Two nodes with different ids; the connection s->d is in both lists, at
\* the second position of s.out_connections and the first position of
\* d.in_connections, and connection_exists(s, d) is true while
\* connection_exists(d, s) is false.
C10_Witness ==
    /\ FullyWired
    /\ \E s \in NodeRefs, d \in NodeRefs, c \in ConnRefs :
           /\ s # d
           /\ UniqueId(s) /\ UniqueId(d)
           /\ from_node(c) = s /\ to_node(c) = d
           /\ Len(nodes[s].out_connections) = 2
           /\ nodes[s].out_connections[2] = c
           /\ nodes[d].in_connections = <<c>>
           /\ connection_exists(s, d)
           /\ ~Added(d, s)
           /\ ~connection_exists(d, s)

----------------------------------------------------------------------------
(* Specification of align_connections *)

\* The lists of at most MaxLen ids, and the two lists of the example of
\* align_connections: ids 1, 3, 5 against ids 2, 3, 4.
IdLists ==
    UNION {[1..k -> ConnIds] : k \in 0..MaxLen} \cup {<<1, 3, 5>>, <<2, 3, 4>>}

\* The arguments of the constructors of the two nodes all genes connect.
InputArgs == Args(PyInt(0), "INPUT", "linear", 0, None)
OutputArgs == Args(PyInt(1), "OUTPUT", "linear", 0, None)

\* Two lists of connection genes with definitive ids, all from an input
\* node to an output node; the two lists share no gene.
InitAlign ==
    \E ids1 \in IdLists, ids2 \in IdLists :
        /\ nodes = <<NodeGeneInit(1, InputArgs), NodeGeneInit(2, OutputArgs)>>
        /\ created = <<InputArgs, OutputArgs>>
        /\ last_x = <<None, None>>
        /\ conns = [c \in 1..(Len(ids1) + Len(ids2)) |->
                        ConnectionGeneInit(PyInt((ids1 \o ids2)[c]),
                                           1, 2, 1, TRUE)]
        /\ con_list1 = [i \in 1..Len(ids1) |-> i]
        /\ con_list2 = [i \in 1..Len(ids2) |-> Len(ids1) + i]
        /\ aligned1 = <<>>
        /\ aligned2 = <<>>
        /\ call = NoCall
        /\ raised = "None"
        /\ ret = 0

NextAlign == AlignConnections

SpecAlign == InitAlign /\ [][NextAlign]_vars

----------------------------------------------------------------------------
(* Claims on align_connections, checked under SpecAlign *)

\* align_connections has returned aligned1 and aligned2.
Aligned == call.op = "align_connections"

\* No two genes of con_list have the same id.
UniqueIds(con_list) ==
    \A i \in DOMAIN con_list, j \in DOMAIN con_list :
        i # j => ListIds(con_list)[i] # ListIds(con_list)[j]

\* The id of the gene or genes at position i of the alignment.
PositionId(i) ==
    IF aligned1[i] # None
    THEN ConnId(aligned1[i][2])[2]
    ELSE ConnId(aligned2[i][2])[2]

\* The number of positions of aligned that hold the gene g.
Occurrences(aligned, g) ==
    Cardinality({i \in DOMAIN aligned : aligned[i] = Obj(g)})

C3_AlignmentLength ==
    Aligned =>
        /\ Len(aligned1) = Len(aligned2)
        /\ Len(aligned1) = Cardinality(Range(ListIds(con_list1))
                                           \cup Range(ListIds(con_list2)))
        /\ \A i \in DOMAIN aligned1 :
               ~(aligned1[i] = None /\ aligned2[i] = None)

\* Five genes with three distinct ids, one id twice in the first list and
\* once more in the second, aligned in three positions.
C3_Witness ==
    /\ Aligned
    /\ ListIds(con_list1) = <<2, 2, 1>>
    /\ ListIds(con_list2) = <<2, 3>>
    /\ Len(aligned1) = 3
    /\ Len(aligned2) = 3

\* C4: align_connections(con_list2, con_list1) is the pair of the lists
\* returned by align_connections(con_list1, con_list2), swapped.
C4_AlignmentSwap ==
    Aligned =>
        align_connections(con_list2, con_list1) = <<aligned2, aligned1>>

\* Two different lists with a common id, whose two aligned lists differ.
C4_Witness ==
    /\ Aligned
    /\ ListIds(con_list1) = <<4, 1>>
    /\ ListIds(con_list2) = <<1, 1, 3>>
    /\ aligned1 = <<Obj(2), None, Obj(1)>>
    /\ aligned2 = <<Obj(4), Obj(5), None>>
    /\ align_connections(con_list2, con_list1)[1] = aligned2

====
